---------------------------- MODULE Spec2Model ----------------------------
(***************************************************************************)
(* Model of unir_pdf.py: the page-selector parser (parse_pages_input),     *)
(* the merge loop of main with process_single_pdf / merge_processed_pdfs,  *)
(* the page resizing chain (resize_pdf_page_precise / _simple) and the     *)
(* target size detection (detect_optimal_size / find_best_fit_size).       *)
(*                                                                         *)
(* Texts are sequences of one-character strings.  Python's None, which    *)
(* only ever stands where a page count could stand, is -1.  An exception   *)
(* is a string naming its class; "none" means that nothing was raised.     *)
(***************************************************************************)
EXTENDS Integers, Sequences, FiniteSets, TLC

VARIABLES
    pc,             \* position of the running handler
    pages_input,    \* parse_pages_input: the text argument
    total_pages,    \* parse_pages_input: the total_pages argument
    parsed,         \* parse_pages_input: [pages, raised] once it returned
    src_page,       \* resize: the page pdf_reader.pages[page_num]
    target_size,    \* the target page size (an entry of PAPER_SIZES)
    use_precise,    \* the resize method chosen in the sidebar
    resized,        \* resize: what the resize function returned
    again,          \* resize: what it returned when applied to its own output
    uploaded_files, \* merge: the uploaded documents, in order
    pages_inputs,   \* merge: st.session_state.pages_inputs, one text per file
    file_idx,       \* merge: the loop variable i
    processed_pdfs, \* merge: the per-document outputs so far
    total_stats,    \* merge: the aggregate counters
    final_pdf,      \* merge: the pages of the merged document
    all_sizes,      \* detect_optimal_size: the (width, height) of scanned pages
    all_ratios,     \* detect_optimal_size: their width / height
    detected,       \* detect_optimal_size: [exc, size] once it ended
    split_file,     \* split: the uploaded document
    split_option,   \* split: "todas" or "rango_personalizado"
    ranges_input,   \* split: the text of the ranges, one per line
    custom_ranges,  \* split: the list handed to split_pdf
    pdf_files,      \* split: [exc, files] once split_pdf ended
    file_names      \* split: the names of the downloads

parseVars == <<pages_input, total_pages, parsed>>
resizeVars == <<src_page, resized, again>>
mergeVars ==
    <<uploaded_files, pages_inputs, file_idx, processed_pdfs, total_stats,
      final_pdf>>
detectVars == <<all_sizes, all_ratios, detected>>
splitVars ==
    <<split_file, split_option, ranges_input, custom_ranges, pdf_files,
      file_names>>
vars ==
    <<pc, parseVars, resizeVars, mergeVars, detectVars, splitVars,
      target_size, use_precise>>

None == -1

(***************************************************************************)
(* Bounds of the model.                                                    *)
(***************************************************************************)
MaxLen == 5           \* longest text typed into a page field
MaxTotalPages == 2    \* largest total_pages handed to the parser

Max(a, b) == IF a >= b THEN a ELSE b
Min(a, b) == IF a <= b THEN a ELSE b

FloatBits == 11       \* significant bits of a float of the model

(***************************************************************************)
(* Python floats.  A float is [m, e], standing for m * 2^e, with m odd (or *)
(* m = 0, e = 0) and |m| < 2^FloatBits.  Every operation computes the      *)
(* exact result and rounds it to the nearest float, ties to even, as IEEE  *)
(* 754 arithmetic does; exponents are unbounded.                           *)
(***************************************************************************)
RECURSIVE Pow2(_)
Pow2(n) == IF n <= 0 THEN 1 ELSE 2 * Pow2(n - 1)

Abs(x) == IF x < 0 THEN 0 - x ELSE x

\* m * 2^e in its one representation
RECURSIVE FlCanon(_, _)
FlCanon(m, e) ==
    IF m = 0 THEN [m |-> 0, e |-> 0]
    ELSE IF m % 2 = 0 THEN FlCanon(m \div 2, e + 1)
    ELSE [m |-> m, e |-> e]

\* the positive rational (n / d) * 2^e rounded to FloatBits bits
RECURSIVE FlRound(_, _, _)
FlRound(n, d, e) ==
    IF n >= d * Pow2(FloatBits) THEN FlRound(n, 2 * d, e + 1)
    ELSE IF n < d * Pow2(FloatBits - 1) THEN FlRound(2 * n, d, e - 1)
    ELSE LET q == n \div d
             r == n % d
             up == 2 * r > d \/ (2 * r = d /\ q % 2 = 1)
         IN  FlCanon(IF up THEN q + 1 ELSE q, e)

\* (n / d) * 2^e of either sign, rounded
FlSigned(n, d, e) ==
    IF n = 0 THEN [m |-> 0, e |-> 0]
    ELSE LET r == FlRound(Abs(n), d, e)
         IN  IF n < 0 THEN [m |-> 0 - r.m, e |-> r.e] ELSE r

\* float(i) of an integer i
FlInt(i) == FlSigned(i, 1, 0)

FlZero == FlInt(0)
FlOne == FlInt(1)

\* position of the leading bit of n >= 1
RECURSIVE BitLen(_)
BitLen(n) == IF n <= 1 THEN 0 ELSE 1 + BitLen(n \div 2)

\* the exponent of the leading bit of a float other than 0
FlTop(a) == BitLen(Abs(a.m)) + a.e

FlNeg(a) == [m |-> 0 - a.m, e |-> a.e]

\* a * b
FlMul(a, b) == FlSigned(a.m * b.m, 1, a.e + b.e)

\* a / b for b # 0 (Python raises ZeroDivisionError for b = 0: see callers)
FlDiv(a, b) ==
    FlSigned(IF b.m < 0 THEN 0 - a.m ELSE a.m, Abs(b.m), a.e - b.e)

\* a + b; an operand below a quarter of the other's last place changes nothing
FlAdd(a, b) ==
    IF a.m = 0 THEN b
    ELSE IF b.m = 0 THEN a
    ELSE IF FlTop(a) - FlTop(b) > FloatBits + 1 THEN a
    ELSE IF FlTop(b) - FlTop(a) > FloatBits + 1 THEN b
    ELSE LET e == Min(a.e, b.e)
         IN  FlSigned(a.m * Pow2(a.e - e) + b.m * Pow2(b.e - e), 1, e)

\* a - b
FlSub(a, b) == FlAdd(a, FlNeg(b))

\* the sign of a - b decides every comparison
FlLess(a, b) == FlSub(a, b).m < 0
FlLeq(a, b) == FlSub(a, b).m <= 0

\* min(a, b): the first of the two unless the second is smaller
FlMin(a, b) == IF FlLess(b, a) THEN b ELSE a

(***************************************************************************)
(* Characters and Python's str / int primitives.                           *)
(***************************************************************************)
Digits == {"0", "1", "2", "3", "4", "5", "6", "7", "8", "9"}

\* the characters the model types into a text field
Alphabet == {"0", "2", "-", ",", " ", "x"}

DigitVal(c) ==
    CASE c = "0" -> 0 [] c = "1" -> 1 [] c = "2" -> 2 [] c = "3" -> 3
      [] c = "4" -> 4 [] c = "5" -> 5 [] c = "6" -> 6 [] c = "7" -> 7
      [] c = "8" -> 8 [] c = "9" -> 9

\* range(a, b) as the set of its elements
Range(a, b) == {k \in a..(b - 1) : TRUE}

\* c in s
Contains(s, c) == \E k \in 1..Len(s) : s[k] = c

\* s.strip()
RECURSIVE lstrip(_)
lstrip(s) == IF s # <<>> /\ Head(s) = " " THEN lstrip(Tail(s)) ELSE s

RECURSIVE rstrip(_)
rstrip(s) ==
    IF s # <<>> /\ s[Len(s)] = " " THEN rstrip(SubSeq(s, 1, Len(s) - 1)) ELSE s

strip(s) == rstrip(lstrip(s))

\* s.split(sep): always at least one piece, empty pieces kept
RECURSIVE split(_, _)
split(s, sep) ==
    IF ~Contains(s, sep) THEN <<s>>
    ELSE LET k == CHOOSE j \in 1..Len(s) :
                      s[j] = sep /\ \A h \in 1..(j - 1) : s[h] # sep
         IN  <<SubSeq(s, 1, k - 1)>> \o split(SubSeq(s, k + 1, Len(s)), sep)

\* the value of a non-empty run of digits
RECURSIVE DigitsValue(_)
DigitsValue(s) ==
    IF s = <<>> THEN 0
    ELSE 10 * DigitsValue(SubSeq(s, 1, Len(s) - 1)) + DigitVal(s[Len(s)])

AllDigits(s) == s # <<>> /\ \A k \in 1..Len(s) : s[k] \in Digits

\* int(s): surrounding blanks are ignored, an optional sign, then digits;
\* anything else raises ValueError
int(s) ==
    LET t == strip(s)
    IN  IF AllDigits(t) THEN [exc |-> "none", val |-> DigitsValue(t)]
        ELSE IF t # <<>> /\ Head(t) = "-" /\ AllDigits(Tail(t))
             THEN [exc |-> "none", val |-> 0 - DigitsValue(Tail(t))]
        ELSE [exc |-> "ValueError", val |-> 0]

(***************************************************************************)
(* parse_pages_input                                                       *)
(***************************************************************************)
\* start, end = map(int, part.split('-'))
unpack_start_end_mut_first_two(pieces) ==
    LET a == int(pieces[1])
        b == int(pieces[2])
    IN  IF a.exc # "none" THEN [exc |-> a.exc, start |-> 0, end |-> 0]
        ELSE IF b.exc # "none" THEN [exc |-> b.exc, start |-> 0, end |-> 0]
        ELSE [exc |-> "none", start |-> a.val, end |-> b.val]

unpack_start_end(pieces) ==
    IF Len(pieces) # 2
    THEN [exc |-> "ValueError", start |-> 0, end |-> 0]
    ELSE LET a == int(pieces[1])
             b == int(pieces[2])
         IN  IF a.exc # "none" THEN [exc |-> a.exc, start |-> 0, end |-> 0]
             ELSE IF b.exc # "none" THEN [exc |-> b.exc, start |-> 0, end |-> 0]
             ELSE [exc |-> "none", start |-> a.val, end |-> b.val]

\* if total_pages: (None and 0 are both false)
Truthy(tp) == tp # None /\ tp # 0

\* the pages a dashed part adds: range(start_idx, end_idx)
range_pages_mut_start(start, end, tp) ==
    Range(Max(0, start), IF Truthy(tp) THEN Min(end, tp) ELSE end)

range_pages(start, end, tp) ==
    LET start_idx == Max(0, start - 1)
        end_idx == IF Truthy(tp) THEN Min(end, tp) ELSE end
    IN  Range(start_idx, end_idx)

\* the pages a part without a dash adds
single_page_mut_unchecked(n, tp) == {n - 1}

single_page(n, tp) ==
    LET page_num == n - 1
    IN  IF tp = None \/ (0 <= page_num /\ page_num < tp)
        THEN {page_num} ELSE {}

\* one iteration of the loop over parts, up to its except clause
parse_part(raw, tp) ==
    LET part == strip(raw)
    IN  IF Contains(part, "-")
        THEN LET u == unpack_start_end(split(part, "-"))
             IN  IF u.exc # "none" THEN [exc |-> u.exc, pages |-> {}]
                 ELSE [exc |-> "none", pages |-> range_pages(u.start, u.end, tp)]
        ELSE LET n == int(part)
             IN  IF n.exc # "none" THEN [exc |-> n.exc, pages |-> {}]
                 ELSE [exc |-> "none", pages |-> single_page(n.val, tp)]

\* the loop: except ValueError: continue; any other exception leaves the
\* function
RECURSIVE parse_parts(_, _, _)
parse_parts(parts, tp, acc) ==
    IF parts = <<>> THEN [pages |-> acc, raised |-> "none"]
    ELSE LET r == parse_part(Head(parts), tp)
         IN  IF r.exc = "none" THEN parse_parts(Tail(parts), tp, acc \cup r.pages)
             ELSE IF r.exc = "ValueError" THEN parse_parts(Tail(parts), tp, acc)
             ELSE [pages |-> acc, raised |-> r.exc]

parse_pages_input_mut_blank_is_first(text, tp) ==
    IF text = <<>> \/ strip(text) = <<>>
    THEN [pages |-> {0}, raised |-> "none"]
    ELSE parse_parts(split(text, ","), tp, {})

parse_pages_input(text, tp) ==
    IF text = <<>> \/ strip(text) = <<>>
    THEN [pages |-> {}, raised |-> "none"]
    ELSE parse_parts(split(text, ","), tp, {})

\* the parser is not running
IdleParse ==
    /\ pages_input = <<>>
    /\ total_pages = None
    /\ parsed = [pages |-> {}, raised |-> "none"]

(***************************************************************************)
(* Paper sizes (points, rounded to whole points) in table order.           *)
(***************************************************************************)
A4 == <<595, 842>>
letter == <<612, 792>>
legal == <<612, 1008>>
A3 == <<842, 1191>>
A5 == <<420, 595>>

PAPER_SIZES ==
    << [name |-> "A4", size |-> A4],
       [name |-> "A4 Horizontal", size |-> <<A4[2], A4[1]>>],
       [name |-> "Letter", size |-> letter],
       [name |-> "Letter Horizontal", size |-> <<letter[2], letter[1]>>],
       [name |-> "Legal", size |-> legal],
       [name |-> "Legal Horizontal", size |-> <<legal[2], legal[1]>>],
       [name |-> "A3", size |-> A3],
       [name |-> "A3 Horizontal", size |-> <<A3[2], A3[1]>>],
       [name |-> "A5", size |-> A5],
       [name |-> "A5 Horizontal", size |-> <<A5[2], A5[1]>>] >>

PaperSizeValues == {PAPER_SIZES[k].size : k \in 1..Len(PAPER_SIZES)}

(***************************************************************************)
(* Pages.  A page has a mediabox <<left, bottom, right, top>> of floats,   *)
(* which may be unreadable, and a content transformation (the scale and    *)
(* the translation applied to what the source page draws).  `fails` tells  *)
(* which pypdf calls raise for this page:                                  *)
(*   "none"    none;                                                       *)
(*   "precise" those only the precise resize makes (scale, translate);     *)
(*   "simple"  also those the simple resize makes (add_page, write, ...).  *)
(***************************************************************************)
FailKinds == {"none", "precise", "simple"}

Identity == [scale |-> FlOne, dx |-> FlZero, dy |-> FlZero]

Page(left, bottom, right, top, readable, fails) ==
    [box |-> <<FlInt(left), FlInt(bottom), FlInt(right), FlInt(top)>>,
     readable |-> readable, fails |-> fails, content |-> Identity]

\* page.mediabox.width, page.mediabox.height
BoxWidth(page) == FlSub(page.box[3], page.box[1])
BoxHeight(page) == FlSub(page.box[4], page.box[2])

NoPlan ==
    [scale |-> FlZero, new_width |-> FlZero, new_height |-> FlZero,
     x_offset |-> FlZero, y_offset |-> FlZero]

\* resize_pdf_page_precise, the arithmetic: scale factors, new dimensions
\* and centring offsets
fit_plan_mut_max(original_width, original_height, target) ==
    LET target_width == FlInt(target[1])
        target_height == FlInt(target[2])
    IN  IF original_width.m = 0 \/ original_height.m = 0
        THEN [exc |-> "ZeroDivisionError", plan |-> NoPlan]
        ELSE LET scale_x == FlDiv(target_width, original_width)
                 scale_y == FlDiv(target_height, original_height)
                 scale == IF FlLess(scale_x, scale_y) THEN scale_y ELSE scale_x
                 new_width == FlMul(original_width, scale)
                 new_height == FlMul(original_height, scale)
             IN  [exc |-> "none",
                  plan |-> [scale |-> scale,
                            new_width |-> new_width,
                            new_height |-> new_height,
                            x_offset |->
                               FlDiv(FlSub(target_width, new_width), FlInt(2)),
                            y_offset |->
                               FlDiv(FlSub(target_height, new_height), FlInt(2))]]

fit_plan(original_width, original_height, target) ==
    LET target_width == FlInt(target[1])
        target_height == FlInt(target[2])
    IN  IF original_width.m = 0 \/ original_height.m = 0
        THEN [exc |-> "ZeroDivisionError", plan |-> NoPlan]
        ELSE LET scale_x == FlDiv(target_width, original_width)
                 scale_y == FlDiv(target_height, original_height)
                 scale == FlMin(scale_x, scale_y)
                 new_width == FlMul(original_width, scale)
                 new_height == FlMul(original_height, scale)
             IN  [exc |-> "none",
                  plan |-> [scale |-> scale,
                            new_width |-> new_width,
                            new_height |-> new_height,
                            x_offset |->
                               FlDiv(FlSub(target_width, new_width), FlInt(2)),
                            y_offset |->
                               FlDiv(FlSub(target_height, new_height), FlInt(2))]]

\* resize_pdf_page_simple: only the upper right corner of the mediabox is
\* set; if that fails the page of the reader is returned as it is
resize_pdf_page_simple_mut_original(page, target) ==
    [page |-> page, how |-> "original"]

resize_pdf_page_simple(page, target) ==
    IF page.fails = "simple"
    THEN [page |-> page, how |-> "original"]
    ELSE [page |-> [page EXCEPT !.box = <<page.box[1], page.box[2],
                                          FlInt(target[1]), FlInt(target[2])>>,
                                !.readable = TRUE,
                                !.content = Identity],
          how |-> "simple"]

\* the page the precise resize writes: page.scale(scale, scale) scales the
\* content and the box, page.translate moves the content if an offset is
\* positive, then the upper right corner of the mediabox is set
precise_page(page, plan, target) ==
    LET moved == plan.x_offset.m > 0 \/ plan.y_offset.m > 0
    IN  [page EXCEPT
           !.box = <<FlMul(page.box[1], plan.scale),
                     FlMul(page.box[2], plan.scale),
                     FlInt(target[1]), FlInt(target[2])>>,
           !.content = [scale |-> plan.scale,
                        dx |-> IF moved THEN plan.x_offset ELSE FlZero,
                        dy |-> IF moved THEN plan.y_offset ELSE FlZero]]

\* resize_pdf_page_precise: any exception is reported by st.warning and the
\* simple resize is returned instead
resize_pdf_page_precise_mut_no_simple(page, target) ==
    IF ~page.readable \/ page.fails # "none"
       \/ fit_plan(BoxWidth(page), BoxHeight(page), target).exc # "none"
    THEN [page |-> page, how |-> "original", warned |-> TRUE, plan |-> NoPlan]
    ELSE [page |-> precise_page(page,
                                fit_plan(BoxWidth(page), BoxHeight(page),
                                         target).plan,
                                target),
          how |-> "precise", warned |-> FALSE,
          plan |-> fit_plan(BoxWidth(page), BoxHeight(page), target).plan]

resize_pdf_page_precise(page, target) ==
    LET fallback == resize_pdf_page_simple(page, target)
        failed(plan) == [page |-> fallback.page, how |-> fallback.how,
                         warned |-> TRUE, plan |-> plan]
    IN  IF ~page.readable THEN failed(NoPlan)
        ELSE LET p == fit_plan(BoxWidth(page), BoxHeight(page), target)
             IN  IF p.exc # "none" THEN failed(NoPlan)
                 ELSE IF page.fails # "none" THEN failed(p.plan)
                 ELSE [page |-> precise_page(page, p.plan, target),
                       how |-> "precise", warned |-> FALSE, plan |-> p.plan]

\* the call process_single_pdf makes for one kept page
resize_page(page, target, precise) ==
    IF precise THEN resize_pdf_page_precise(page, target)
    ELSE LET r == resize_pdf_page_simple(page, target)
         IN  [page |-> r.page, how |-> r.how, warned |-> FALSE,
              plan |-> NoPlan]

(***************************************************************************)
(* Documents, process_single_pdf and merge_processed_pdfs.  A document has *)
(* the name of its file and its pages; PdfReader raises for an unreadable  *)
(* one.  A page of an output remembers the file and the index it came      *)
(* from.                                                                   *)
(***************************************************************************)
Document(name, readable, pages) ==
    [name |-> name, readable |-> readable, pages |-> pages]

\* [i for i in range(total_pages) if i not in pages_to_remove], from i on
RECURSIVE pages_to_keep_mut_keep_all(_, _, _)
pages_to_keep_mut_keep_all(i, total, remove) ==
    IF i >= total THEN <<>>
    ELSE <<i>> \o pages_to_keep_mut_keep_all(i + 1, total, remove)

RECURSIVE pages_to_keep(_, _, _)
pages_to_keep(i, total, remove) ==
    IF i >= total THEN <<>>
    ELSE (IF i \notin remove THEN <<i>> ELSE <<>>)
            \o pages_to_keep(i + 1, total, remove)

\* the preview of main: total_pages - len(parse_pages_input(pages_input,
\* total_pages)), shown as the pages that will remain
preview_remaining(text, total) ==
    total - Cardinality(parse_pages_input(text, total).pages)

NoOutput == [exc |-> "Exception", buffer |-> <<>>, total_pages |-> 0, kept |-> 0]

process_single_pdf(pdf_file, pages_to_remove, target, precise) ==
    IF ~pdf_file.readable THEN NoOutput
    ELSE LET total == Len(pdf_file.pages)
             keep == pages_to_keep(0, total, pages_to_remove)
         IN  [exc |-> "none",
              buffer |->
                 [k \in 1..Len(keep) |->
                    LET r == resize_page(pdf_file.pages[keep[k] + 1], target,
                                         precise)
                    IN  [file |-> pdf_file.name, index |-> keep[k],
                         page |-> r.page, how |-> r.how, warned |-> r.warned]],
              total_pages |-> total,
              kept |-> Len(keep)]

\* merger.append(pdf_buffer) for every buffer, in order
RECURSIVE merge_processed_pdfs(_)
merge_processed_pdfs(buffers) ==
    IF buffers = <<>> THEN <<>>
    ELSE Head(buffers) \o merge_processed_pdfs(Tail(buffers))

NoStats ==
    [original_pages |-> 0, removed_pages |-> 0, final_pages |-> 0,
     processed_files |-> 0]

IdleMerge ==
    /\ uploaded_files = <<>>
    /\ pages_inputs = <<>>
    /\ file_idx = 0
    /\ processed_pdfs = <<>>
    /\ total_stats = NoStats
    /\ final_pdf = <<>>

(***************************************************************************)
(* detect_optimal_size and find_best_fit_size.  A size of all_sizes is a   *)
(* pair of floats; a size of the table is a pair of whole points.          *)
(***************************************************************************)
NoSize == <<0, 0>>

\* the loop over the pages of one file, from page k on: the size of a page
\* is appended before its ratio is computed, and any exception ends the
\* scan of the file with what was appended so far
RECURSIVE scan_pages(_, _, _, _)
scan_pages(pages, k, sizes, ratios) ==
    IF k > Len(pages) \/ ~pages[k].readable
    THEN [sizes |-> sizes, ratios |-> ratios]
    ELSE \* width, height = float(page.mediabox.width), float(...height)
         IF BoxHeight(pages[k]).m = 0
         THEN [sizes |-> Append(sizes, <<BoxWidth(pages[k]), BoxHeight(pages[k])>>),
               ratios |-> ratios]
         ELSE scan_pages(pages, k + 1,
                         Append(sizes, <<BoxWidth(pages[k]), BoxHeight(pages[k])>>),
                         Append(ratios,
                                FlDiv(BoxWidth(pages[k]), BoxHeight(pages[k]))))

\* the body of the loop over the files: PdfReader raises for an unreadable
\* file, which is skipped
scan_file(file, sizes, ratios) ==
    IF ~file.readable THEN [sizes |-> sizes, ratios |-> ratios]
    ELSE scan_pages(file.pages, 1, sizes, ratios)

\* round(x, 2): the float nearest to the nearest decimal with two places
round2(x) ==
    LET n == 100 * Abs(x.m) * Pow2(x.e)
        d == Pow2(0 - x.e)
        up == 2 * (n % d) > d \/ (2 * (n % d) = d /\ (n \div d) % 2 = 1)
        hundredths == IF up THEN (n \div d) + 1 ELSE n \div d
    IN  FlSigned(IF x.m < 0 THEN 0 - hundredths ELSE hundredths, 100, 0)

\* how often x occurs in seq
Count(seq, x) == Cardinality({k \in 1..Len(seq) : seq[k] = x})

\* Counter(seq).most_common(1)[0][0]: the most frequent element, the one
\* met first among equally frequent ones; IndexError if there is none
most_common(seq) ==
    IF seq = <<>> THEN [exc |-> "IndexError", value |-> FlZero]
    ELSE [exc |-> "none",
          value |->
             seq[CHOOSE k \in 1..Len(seq) :
                    /\ \A j \in 1..Len(seq) :
                          Count(seq, seq[j]) <= Count(seq, seq[k])
                    /\ \A j \in 1..(k - 1) :
                          Count(seq, seq[j]) < Count(seq, seq[k])]]

\* the literal 0.001
Thousandth == FlSigned(1, 1000, 0)

FlAbs(a) == [m |-> Abs(a.m), e |-> a.e]

\* max(a, b): the first of the two unless the second is greater
FlMax(a, b) == IF FlLess(a, b) THEN b ELSE a

\* what the page exceeds the standard size by, 0 if it does not
size_penalty(width, height, std_width, std_height) ==
    IF FlLess(std_width, width) \/ FlLess(std_height, height)
    THEN FlMax(FlSub(width, std_width), FlSub(height, std_height))
    ELSE FlZero

\* the inner loop of find_best_fit_size over all_sizes, from entry k on
RECURSIVE size_score(_, _, _, _)
size_score(std_size, sizes, k, score) ==
    IF k > Len(sizes) THEN [exc |-> "none", score |-> score]
    ELSE IF sizes[k][2].m = 0
    THEN [exc |-> "ZeroDivisionError", score |-> score]
    ELSE size_score(
            std_size, sizes, k + 1,
            FlAdd(score,
                  FlAdd(FlAbs(FlSub(FlDiv(sizes[k][1], sizes[k][2]),
                                    FlDiv(FlInt(std_size[1]), FlInt(std_size[2])))),
                        FlMul(size_penalty(sizes[k][1], sizes[k][2],
                                           FlInt(std_size[1]), FlInt(std_size[2])),
                              Thousandth))))

\* the outer loop over PAPER_SIZES from entry i on; best_score is
\* float('inf') while is_inf
RECURSIVE best_fit_from_mut_greatest(_, _, _, _, _)
best_fit_from_mut_greatest(i, sizes, best_size, best_score, is_inf) ==
    IF i > Len(PAPER_SIZES) THEN [exc |-> "none", size |-> best_size]
    ELSE LET s == size_score(PAPER_SIZES[i].size, sizes, 1, FlZero)
         IN  IF s.exc # "none" THEN [exc |-> s.exc, size |-> NoSize]
             ELSE IF is_inf \/ FlLess(best_score, s.score)
             THEN best_fit_from_mut_greatest(i + 1, sizes, PAPER_SIZES[i].size,
                                             s.score, FALSE)
             ELSE best_fit_from_mut_greatest(i + 1, sizes, best_size,
                                             best_score, is_inf)

RECURSIVE best_fit_from(_, _, _, _, _)
best_fit_from(i, sizes, best_size, best_score, is_inf) ==
    IF i > Len(PAPER_SIZES) THEN [exc |-> "none", size |-> best_size]
    ELSE LET s == size_score(PAPER_SIZES[i].size, sizes, 1, FlZero)
         IN  IF s.exc # "none" THEN [exc |-> s.exc, size |-> NoSize]
             ELSE IF is_inf \/ FlLess(s.score, best_score)
             THEN best_fit_from(i + 1, sizes, PAPER_SIZES[i].size, s.score, FALSE)
             ELSE best_fit_from(i + 1, sizes, best_size, best_score, is_inf)

\* target_ratio (and tolerance) are not used by the function
find_best_fit_size(sizes, target_ratio) ==
    best_fit_from(1, sizes, A4, FlZero, TRUE)

NoDetection == [exc |-> "none", size |-> NoSize, most_common_ratio |-> FlZero]

\* detect_optimal_size after the loop over the files
choose_size_mut_no_default(sizes, ratios) ==
    LET ratio == most_common([k \in 1..Len(ratios) |-> round2(ratios[k])])
    IN  IF ratio.exc # "none"
        THEN [exc |-> ratio.exc, size |-> NoSize, most_common_ratio |-> FlZero]
        ELSE LET best == find_best_fit_size(sizes, ratio.value)
             IN  [exc |-> best.exc, size |-> best.size,
                  most_common_ratio |-> ratio.value]

choose_size(sizes, ratios) ==
    IF sizes = <<>>
    THEN [exc |-> "none", size |-> A4, most_common_ratio |-> FlZero]
    ELSE LET ratio == most_common([k \in 1..Len(ratios) |-> round2(ratios[k])])
         IN  IF ratio.exc # "none"
             THEN [exc |-> ratio.exc, size |-> NoSize, most_common_ratio |-> FlZero]
             ELSE LET best == find_best_fit_size(sizes, ratio.value)
                  IN  [exc |-> best.exc, size |-> best.size,
                       most_common_ratio |-> ratio.value]

IdleDetect ==
    /\ all_sizes = <<>>
    /\ all_ratios = <<>>
    /\ detected = NoDetection

(***************************************************************************)
(* split_pdf and the split tab of main.  An output is the sequence of the  *)
(* pages added to its writer, each with the index it has in the source.    *)
(***************************************************************************)
\* range(a, b) in order
RangeSeq(a, b) == [k \in 1..Max(0, b - a) |-> a + k - 1]

\* pdf_writer.add_page(pdf_reader.pages[page_num]) for the page numbers
added_pages(pages, page_nums) ==
    [k \in 1..Len(page_nums) |->
        [index |-> page_nums[k], page |-> pages[page_nums[k] + 1]]]

\* split_option == "todas": one writer per page
RECURSIVE split_all_mut_reversed(_, _)
split_all_mut_reversed(pages, page_num) ==
    IF page_num >= Len(pages) THEN <<>>
    ELSE split_all_mut_reversed(pages, page_num + 1)
            \o <<added_pages(pages, <<page_num>>)>>

RECURSIVE split_all(_, _)
split_all(pages, page_num) ==
    IF page_num >= Len(pages) THEN <<>>
    ELSE <<added_pages(pages, <<page_num>>)>> \o split_all(pages, page_num + 1)

\* the body of the loop over custom_ranges: the page numbers added to the
\* writer, or skipped when `continue` is taken on a ValueError
split_range_mut_no_clamp(range_str, total) ==
    IF Contains(range_str, "-")
    THEN LET u == unpack_start_end(split(range_str, "-"))
         IN  IF u.exc # "none" THEN [skipped |-> TRUE, page_nums |-> <<>>]
             ELSE [skipped |-> FALSE,
                   page_nums |-> RangeSeq(Min(total, u.start), Min(total, u.end))]
    ELSE LET n == int(range_str)
         IN  IF n.exc # "none" THEN [skipped |-> TRUE, page_nums |-> <<>>]
             ELSE [skipped |-> FALSE,
                   page_nums |-> IF 0 <= n.val - 1 /\ n.val - 1 < total
                                 THEN <<n.val - 1>> ELSE <<>>]

split_range(range_str, total) ==
    IF Contains(range_str, "-")
    THEN LET u == unpack_start_end(split(range_str, "-"))
         IN  IF u.exc # "none" THEN [skipped |-> TRUE, page_nums |-> <<>>]
             ELSE [skipped |-> FALSE,
                   page_nums |-> RangeSeq(Max(1, u.start) - 1, Min(total, u.end))]
    ELSE LET n == int(range_str)
         IN  IF n.exc # "none" THEN [skipped |-> TRUE, page_nums |-> <<>>]
             ELSE [skipped |-> FALSE,
                   page_nums |-> IF 0 <= n.val - 1 /\ n.val - 1 < total
                                 THEN <<n.val - 1>> ELSE <<>>]

\* the loop over custom_ranges: the writer of an entry that was not skipped
\* is written and appended, whatever it holds
RECURSIVE split_ranges(_, _)
split_ranges(pages, ranges) ==
    IF ranges = <<>> THEN <<>>
    ELSE LET r == split_range(Head(ranges), Len(pages))
         IN  (IF r.skipped THEN <<>> ELSE <<added_pages(pages, r.page_nums)>>)
                \o split_ranges(pages, Tail(ranges))

\* split_pdf; custom_ranges = None is the empty list, which is as false
split_pdf(pdf_file, option, ranges) ==
    IF ~pdf_file.readable THEN [exc |-> "Exception", files |-> <<>>]
    ELSE IF option = "todas"
    THEN [exc |-> "none", files |-> split_all(pdf_file.pages, 0)]
    ELSE IF option = "rango_personalizado" /\ ranges # <<>>
    THEN [exc |-> "none", files |-> split_ranges(pdf_file.pages, ranges)]
    ELSE [exc |-> "none", files |-> <<>>]

\* str(n) of an integer n >= 0
RECURSIVE str(_)
str(n) ==
    LET digit == CHOOSE c \in Digits : DigitVal(c) = n % 10
    IN  IF n < 10 THEN <<digit>> ELSE Append(str(n \div 10), digit)

\* the validation of one line of the text area: the range as it is kept
validate_range_mut_accept_all(range_str, total) ==
    [valid |-> TRUE, range |-> range_str]

validate_range(range_str, total) ==
    IF Contains(range_str, "-")
    THEN LET u == unpack_start_end(split(range_str, "-"))
         IN  IF u.exc = "none" /\ 1 <= u.start /\ u.start <= u.end
                /\ u.end <= total
             THEN [valid |-> TRUE, range |-> str(u.start) \o <<"-">> \o str(u.end)]
             ELSE [valid |-> FALSE, range |-> range_str]
    ELSE LET n == int(range_str)
         IN  IF n.exc = "none" /\ 1 <= n.val /\ n.val <= total
             THEN [valid |-> TRUE, range |-> str(n.val)]
             ELSE [valid |-> FALSE, range |-> range_str]

\* [r.strip() for r in ranges_input.split('\n') if r.strip()]
RECURSIVE stripped_lines(_)
stripped_lines(lines) ==
    IF lines = <<>> THEN <<>>
    ELSE (IF strip(Head(lines)) # <<>> THEN <<strip(Head(lines))>> ELSE <<>>)
            \o stripped_lines(Tail(lines))

RECURSIVE valid_ranges(_, _)
valid_ranges(ranges, total) ==
    IF ranges = <<>> THEN <<>>
    ELSE LET v == validate_range(Head(ranges), total)
         IN  (IF v.valid THEN <<v.range>> ELSE <<>>)
                \o valid_ranges(Tail(ranges), total)

\* ranges_list of main: the valid ranges of the text, [] for no text, None
\* (here the empty list) in the other mode
ranges_list_of(text, option, total) ==
    IF option = "rango_personalizado" /\ text # <<>>
    THEN valid_ranges(stripped_lines(split(text, "\n")), total)
    ELSE <<>>

\* s.replace('-', '_')
replace_dash(s) == [k \in 1..Len(s) |-> IF s[k] = "-" THEN "_" ELSE s[k]]

\* the name of download i (from 0)
file_name(option, ranges, i) ==
    IF option = "todas"
    THEN <<"p", "a", "g", "i", "n", "a", "_">> \o str(i + 1)
            \o <<".", "p", "d", "f">>
    ELSE replace_dash(
            <<"r", "a", "n", "g", "o", "_">>
               \o (IF i < Len(ranges) THEN ranges[i + 1]
                   ELSE <<"r", "a", "n", "g", "o", "_">> \o str(i + 1))
               \o <<".", "p", "d", "f">>)

NoFiles == [exc |-> "none", files |-> <<>>]

IdleSplit ==
    /\ split_file = Document(0, FALSE, <<>>)
    /\ split_option = "todas"
    /\ ranges_input = <<>>
    /\ custom_ranges = <<>>
    /\ pdf_files = NoFiles
    /\ file_names = <<>>

(***************************************************************************)
(* One page resized, and the result resized once more.                     *)
(***************************************************************************)
NoPage == Page(0, 0, 0, 0, FALSE, "none")
NoResult ==
    [page |-> NoPage, how |-> "none", warned |-> FALSE, plan |-> NoPlan]

IdleResize ==
    /\ src_page = NoPage
    /\ resized = NoResult
    /\ again = NoResult

\* widths and heights of source pages, in points
SourceDims == {0, 100, 297, 420, 595, 612, 792, 842}
\* lower left corners of source mediaboxes
SourceOrigins == {<<0, 0>>, <<10, 10>>}

SourcePages ==
    {Page(o[1], o[2], o[1] + w, o[2] + h, TRUE, f) :
        o \in SourceOrigins, w \in SourceDims, h \in SourceDims, f \in FailKinds}
    \cup {Page(0, 0, 612, 792, FALSE, f) : f \in FailKinds}

InitResize ==
    /\ IdleParse /\ IdleMerge /\ IdleDetect /\ IdleSplit
    /\ pc = "page"
    /\ src_page \in SourcePages
    /\ target_size \in PaperSizeValues
    /\ use_precise \in BOOLEAN
    /\ resized = NoResult
    /\ again = NoResult

Resize ==
    /\ pc = "page"
    /\ resized' = resize_page(src_page, target_size, use_precise)
    /\ pc' = "resized"
    /\ UNCHANGED <<src_page, target_size, use_precise, again, parseVars,
                   mergeVars, detectVars, splitVars>>

ResizeAgain ==
    /\ pc = "resized"
    /\ again' = resize_page(resized.page, target_size, use_precise)
    /\ pc' = "again"
    /\ UNCHANGED <<src_page, target_size, use_precise, resized, parseVars,
                   mergeVars, detectVars, splitVars>>

NextResize == Resize \/ ResizeAgain

SpecResize == InitResize /\ [][NextResize]_vars

(***************************************************************************)
(* The parser on its own: a text is typed, then parsed with or without a   *)
(* page count.                                                             *)
(***************************************************************************)
TotalPagesArgs == {None} \cup 0..MaxTotalPages

RECURSIVE TextsUpTo(_)
TextsUpTo(n) ==
    IF n = 0 THEN {<<>>}
    ELSE LET shorter == TextsUpTo(n - 1)
         IN  shorter \cup {Append(t, c) : t \in shorter, c \in Alphabet}

\* the texts and page counts the specification names as examples
Text_1_3_5to7 == <<"1", ",", "3", ",", "5", "-", "7">>
Text_2to2 == <<"2", "-", "2">>
Text_1to2to3 == <<"1", "-", "2", "-", "3">>
Text_to3 == <<"-", "3">>
Text_4to == <<"4", "-">>
ExampleTexts == {Text_1_3_5to7, Text_2to2, Text_1to2to3, Text_to3, Text_4to}
ExampleTotals == {5, 10}

InitParse ==
    /\ IdleResize /\ IdleMerge /\ IdleDetect /\ IdleSplit
    /\ target_size = A4 /\ use_precise = TRUE
    /\ pc = "typed"
    /\ pages_input \in TextsUpTo(MaxLen) \cup ExampleTexts
    /\ total_pages = None
    /\ parsed = [pages |-> {}, raised |-> "none"]

CallParse ==
    /\ pc = "typed"
    /\ \E tp \in TotalPagesArgs \cup
                  (IF pages_input \in ExampleTexts THEN ExampleTotals ELSE {}) :
          /\ total_pages' = tp
          /\ parsed' = parse_pages_input(pages_input, tp)
    /\ pc' = "parsed"
    /\ UNCHANGED <<pages_input, resizeVars, mergeVars, detectVars, splitVars,
                   target_size, use_precise>>

NextParse == CallParse

SpecParse == InitParse /\ [][NextParse]_vars


(***************************************************************************)
(* The merge button of main: the loop over the uploaded files, then the    *)
(* merge.  An exception anywhere inside is caught by the handler of the    *)
(* button, which reports it with st.error and produces nothing.            *)
(***************************************************************************)
MaxFiles == 2         \* most files uploaded at once
MaxDocPages == 3      \* most pages of a document in a batch of several
MaxRichPages == 2     \* most pages of a document uploaded alone

PlainPage == Page(0, 0, 612, 792, TRUE, "none")
SmallPage == Page(0, 0, 297, 420, TRUE, "none")
ZeroHeightPage == Page(0, 0, 612, 0, TRUE, "none")
ZeroWidthPage == Page(0, 0, 0, 792, TRUE, "none")
ZeroHeightBrokenPage == Page(0, 0, 612, 0, TRUE, "simple")
UnreadableBoxPage == Page(0, 0, 612, 792, FALSE, "none")
PreciseFailsPage == Page(0, 0, 612, 792, TRUE, "precise")
SimpleFailsPage == Page(0, 0, 612, 792, TRUE, "simple")

PageKinds ==
    {PlainPage, SmallPage, ZeroHeightPage, ZeroWidthPage, ZeroHeightBrokenPage,
     UnreadableBoxPage, PreciseFailsPage, SimpleFailsPage}

SeqsUpTo(S, n) == UNION {[1..k -> S] : k \in 0..n}

\* what a single uploaded file may hold: any pages
RichContents == {[readable |-> TRUE, pages |-> ps] : ps \in SeqsUpTo(PageKinds, MaxRichPages)}

\* what each file of a larger batch may hold: plain pages, or nothing readable
PlainContents ==
    {[readable |-> TRUE, pages |-> [k \in 1..n |-> PlainPage]] : n \in 0..MaxDocPages}
    \cup {[readable |-> FALSE, pages |-> <<>>]}

\* the files get their position as name
Named(contents) ==
    [k \in 1..Len(contents) |->
        Document(k, contents[k].readable, contents[k].pages)]

Batches ==
    {Named(<<c>>) : c \in RichContents}
    \cup {Named(cs) : cs \in UNION {[1..k -> PlainContents] : k \in 1..MaxFiles}}

\* the texts typed into the fields of the pages to remove: of a file
\* uploaded alone, and of the files of a larger batch
MergeTexts ==
    {<<>>, <<"1">>, <<"0">>, <<"2", "-", "9">>, <<"1", ",", "3">>}
BatchTexts == {<<>>, <<"1">>, <<"2", "-", "9">>}

MergeTargets == {letter, <<A5[2], A5[1]>>}

InitMerge ==
    /\ IdleParse /\ IdleResize /\ IdleDetect /\ IdleSplit
    /\ pc = "uploaded"
    /\ uploaded_files \in Batches
    /\ pages_inputs \in
          [1..Len(uploaded_files) ->
              IF Len(uploaded_files) = 1 THEN MergeTexts ELSE BatchTexts]
    /\ target_size \in MergeTargets
    /\ use_precise \in BOOLEAN
    /\ file_idx = 0
    /\ processed_pdfs = <<>>
    /\ total_stats = NoStats
    /\ final_pdf = <<>>

\* the button is pressed: the lists and counters are set up
ClickMerge ==
    /\ pc = "uploaded"
    /\ processed_pdfs' = <<>>
    /\ total_stats' = NoStats
    /\ file_idx' = 0
    /\ pc' = "loop"
    /\ UNCHANGED <<uploaded_files, pages_inputs, final_pdf, target_size,
                   use_precise, parseVars, resizeVars, detectVars, splitVars>>

\* one iteration of the loop over the files; process_single_pdf is called
\* once and its three results are unpacked
ProcessFile ==
    /\ pc = "loop"
    /\ file_idx < Len(uploaded_files)
    /\ \E pages_to_remove \in
             {parse_pages_input(pages_inputs[file_idx + 1], None).pages} :
       \E out \in {process_single_pdf(uploaded_files[file_idx + 1],
                                      pages_to_remove, target_size,
                                      use_precise)} :
          IF out.exc # "none"
          THEN /\ pc' = "error"
               /\ UNCHANGED <<processed_pdfs, total_stats, file_idx>>
          ELSE /\ processed_pdfs' = Append(processed_pdfs, out.buffer)
               /\ total_stats' =
                     [original_pages |->
                         total_stats.original_pages + out.total_pages,
                      removed_pages |->
                         total_stats.removed_pages + Cardinality(pages_to_remove),
                      final_pages |-> total_stats.final_pages + out.kept,
                      processed_files |-> total_stats.processed_files + 1]
               /\ file_idx' = file_idx + 1
               /\ pc' = "loop"
    /\ UNCHANGED <<uploaded_files, pages_inputs, final_pdf, target_size,
                   use_precise, parseVars, resizeVars, detectVars, splitVars>>

\* after the loop: final_pdf = merge_processed_pdfs(processed_pdfs)
MergeAll ==
    /\ pc = "loop"
    /\ file_idx = Len(uploaded_files)
    /\ final_pdf' = merge_processed_pdfs(processed_pdfs)
    /\ pc' = "merged"
    /\ UNCHANGED <<uploaded_files, pages_inputs, file_idx, processed_pdfs,
                   total_stats, target_size, use_precise, parseVars, resizeVars,
                   detectVars, splitVars>>

NextMerge == ClickMerge \/ ProcessFile \/ MergeAll

SpecMerge == InitMerge /\ [][NextMerge]_vars

(***************************************************************************)
(* detect_optimal_size on the uploaded files: the loop over the files,     *)
(* then the choice of the size.                                            *)
(***************************************************************************)
MaxScanPages == 3     \* most pages of a scanned document uploaded alone

WidePage == Page(0, 0, 842, 595, TRUE, "none")
BigPage == Page(0, 0, 842, 1191, TRUE, "none")

ScanPageKinds ==
    {PlainPage, SmallPage, WidePage, BigPage, ZeroHeightPage, UnreadableBoxPage}

\* a file scanned alone may hold any pages
RichScans ==
    {[readable |-> TRUE, pages |-> ps] : ps \in SeqsUpTo(ScanPageKinds, MaxScanPages)}

\* a file of a larger batch is unreadable, empty or has one page
PlainScans ==
    {[readable |-> FALSE, pages |-> <<>>],
     [readable |-> TRUE, pages |-> <<>>],
     [readable |-> TRUE, pages |-> <<PlainPage>>],
     [readable |-> TRUE, pages |-> <<ZeroHeightPage>>]}

ScanBatches ==
    {Named(<<c>>) : c \in RichScans}
    \cup {Named(cs) : cs \in SeqsUpTo(PlainScans, MaxFiles)}

InitDetect ==
    /\ IdleParse /\ IdleResize /\ IdleDetect /\ IdleSplit
    /\ pc = "scanning"
    /\ uploaded_files \in ScanBatches
    /\ pages_inputs = <<>>
    /\ target_size = A4
    /\ use_precise = TRUE
    /\ file_idx = 0
    /\ processed_pdfs = <<>>
    /\ total_stats = NoStats
    /\ final_pdf = <<>>

\* one iteration of the loop over the files
ScanFile ==
    /\ pc = "scanning"
    /\ file_idx < Len(uploaded_files)
    /\ \E scanned \in {scan_file(uploaded_files[file_idx + 1], all_sizes,
                                 all_ratios)} :
          /\ all_sizes' = scanned.sizes
          /\ all_ratios' = scanned.ratios
    /\ file_idx' = file_idx + 1
    /\ UNCHANGED <<pc, detected, uploaded_files, pages_inputs, processed_pdfs,
                   total_stats, final_pdf, target_size, use_precise,
                   parseVars, resizeVars, splitVars>>

\* after the loop: the default, or the best fit, or an exception
ChooseSize ==
    /\ pc = "scanning"
    /\ file_idx = Len(uploaded_files)
    /\ \E result \in {choose_size(all_sizes, all_ratios)} :
          /\ detected' = result
          /\ pc' = IF result.exc = "none" THEN "returned" ELSE "raised"
    /\ UNCHANGED <<all_sizes, all_ratios, mergeVars, target_size, use_precise,
                   parseVars, resizeVars, splitVars>>

NextDetect == ScanFile \/ ChooseSize

SpecDetect == InitDetect /\ [][NextDetect]_vars

(***************************************************************************)
(* The split: split_pdf called with the lines of the text as they are, and *)
(* the split button of main, which hands over the validated ranges.        *)
(***************************************************************************)
MaxSplitPages == 5    \* most pages of a document to split
MaxEntries == 2       \* most lines of the text of the ranges

\* a document of n pages that differ from one another
SplitDoc(n) ==
    Document(1, TRUE, [k \in 1..n |-> Page(0, 0, 100 * k, 792, TRUE, "none")])

SplitDocs ==
    {SplitDoc(n) : n \in 0..MaxSplitPages} \cup {Document(1, FALSE, <<>>)}

\* the lines typed into the text area
EntryTexts ==
    {<<"1">>, <<"3">>, <<"9", "9">>, <<"0">>, <<"1", "-", "3">>,
     <<"2", "-", "2">>, <<"8", "-", "1", "0">>, <<"4", "-", "2">>,
     <<"1", ",", "3">>, <<"x">>, <<"1", "-", "2", "-", "3">>,
     <<" ", "2", " ", "-", " ", "4">>, <<" ">>}

\* "\n".join(lines)
RECURSIVE join_lines(_)
join_lines(lines) ==
    IF lines = <<>> THEN <<>>
    ELSE IF Len(lines) = 1 THEN Head(lines)
    ELSE Head(lines) \o <<"\n">> \o join_lines(Tail(lines))

InitSplit ==
    /\ IdleParse /\ IdleResize /\ IdleMerge /\ IdleDetect
    /\ target_size = A4 /\ use_precise = TRUE
    /\ pc = "split_typed"
    /\ split_file \in SplitDocs
    /\ split_option \in {"todas", "rango_personalizado"}
    /\ ranges_input \in
          IF split_option = "todas" THEN {<<>>}
          ELSE {join_lines(ls) : ls \in SeqsUpTo(EntryTexts, MaxEntries)}
    /\ custom_ranges = <<>>
    /\ pdf_files = NoFiles
    /\ file_names = <<>>

\* split_pdf called with the lines of the text, unvalidated
CallSplit ==
    /\ pc = "split_typed"
    /\ \E ranges \in {IF ranges_input = <<>> THEN <<>>
                      ELSE split(ranges_input, "\n")} :
       \E out \in {split_pdf(split_file, split_option, ranges)} :
          /\ custom_ranges' = ranges
          /\ pdf_files' = out
          /\ pc' = IF out.exc = "none" THEN "split_returned" ELSE "split_raised"
    /\ UNCHANGED <<split_file, split_option, ranges_input, file_names,
                   parseVars, resizeVars, mergeVars, detectVars, target_size,
                   use_precise>>

\* the split button of main, shown once the document could be read: the
\* ranges are validated, split_pdf is called and the downloads are named
ClickSplit ==
    /\ pc = "split_typed"
    /\ split_file.readable
    /\ \E ranges_list \in {ranges_list_of(ranges_input, split_option,
                                          Len(split_file.pages))} :
          /\ custom_ranges' = ranges_list
          /\ IF split_option = "rango_personalizado" /\ ranges_list = <<>>
             THEN /\ pc' = "split_refused"
                  /\ UNCHANGED <<pdf_files, file_names>>
             ELSE \E out \in {split_pdf(split_file, split_option, ranges_list)} :
                     /\ pdf_files' = out
                     /\ pc' = IF out.exc # "none" THEN "split_error"
                              ELSE IF out.files = <<>> THEN "split_warned"
                              ELSE "split_done"
                     /\ file_names' =
                           IF out.exc # "none" THEN <<>>
                           ELSE [i \in 1..Len(out.files) |->
                                    file_name(split_option, ranges_list, i - 1)]
    /\ UNCHANGED <<split_file, split_option, ranges_input, parseVars,
                   resizeVars, mergeVars, detectVars, target_size, use_precise>>

NextSplit == CallSplit \/ ClickSplit

SpecSplit == InitSplit /\ [][NextSplit]_vars

(***************************************************************************)
(* The page-selector grammar as the specification states it, written over  *)
(* positions of the text and independently of the parser above.            *)
(***************************************************************************)
\* <<i, j>>: the text from i to j is a maximal stretch without a comma
TokenSpans(s) ==
    {sp \in (1..(Len(s) + 1)) \X (0..Len(s)) :
        /\ sp[2] >= sp[1] - 1
        /\ sp[1] = 1 \/ s[sp[1] - 1] = ","
        /\ sp[2] = Len(s) \/ s[sp[2] + 1] = ","
        /\ \A k \in sp[1]..sp[2] : s[k] # ","}

Tokens(s) == {SubSeq(s, sp[1], sp[2]) : sp \in TokenSpans(s)}

\* t without the blanks around it
Trimmed(t) ==
    LET inked == {k \in 1..Len(t) : t[k] # " "}
    IN  IF inked = {} THEN <<>>
        ELSE SubSeq(t, CHOOSE a \in inked : \A k \in inked : a <= k,
                       CHOOSE b \in inked : \A k \in inked : b >= k)

IsNumber(u) == Len(u) >= 1 /\ \A k \in 1..Len(u) : u[k] \in Digits

RECURSIVE Pow10(_)
Pow10(n) == IF n = 0 THEN 1 ELSE 10 * Pow10(n - 1)

RECURSIVE SumOver(_, _)
SumOver(S, f) ==
    IF S = {} THEN 0
    ELSE LET x == CHOOSE y \in S : TRUE IN f[x] + SumOver(S \ {x}, f)

NumberValue(u) ==
    SumOver(1..Len(u), [k \in 1..Len(u) |-> DigitVal(u[k]) * Pow10(Len(u) - k)])

DashesOf(t) == {k \in 1..Len(t) : t[k] = "-"}
TheDash(t) == CHOOSE k \in DashesOf(t) : TRUE
LeftOf(t) == Trimmed(SubSeq(t, 1, TheDash(t) - 1))
RightOf(t) == Trimmed(SubSeq(t, TheDash(t) + 1, Len(t)))

IsSingle(t) == DashesOf(t) = {} /\ IsNumber(Trimmed(t))
IsDashed(t) ==
    Cardinality(DashesOf(t)) = 1 /\ IsNumber(LeftOf(t)) /\ IsNumber(RightOf(t))

\* a token is well formed when it is a number N or a dashed pair S-E
WellFormed(t) == IsSingle(t) \/ IsDashed(t)

\* what a well-formed token names in a document of n >= 1 pages
TokenPages(t, n) ==
    IF IsSingle(t)
    THEN LET N == NumberValue(Trimmed(t))
         IN  IF 0 <= N - 1 /\ N - 1 < n THEN {N - 1} ELSE {}
    ELSE LET S == NumberValue(LeftOf(t))
             E == NumberValue(RightOf(t))
         IN  {i \in 0..(n - 1) : Max(1, S) - 1 <= i /\ i < Min(E, n)}

(***************************************************************************)
(* Claims about parse_pages_input, checked under SpecParse.                *)
(***************************************************************************)
\* C1: whenever a total_pages value is supplied (any integer >= 0, 0
\* included), every index of the returned set lies in [0, total_pages).
C1_IndicesWithinTotal ==
    (pc = "parsed" /\ total_pages # None)
        => parsed.pages \subseteq 0..(total_pages - 1)

\* C2: parse_pages_input never raises, a malformed token contributes
\* nothing, and the result is the union of what the well-formed tokens of
\* the same text contribute.
C2_MalformedTokensIgnored ==
    /\ pc = "parsed" =>
          /\ parsed.raised = "none"
          /\ parsed.pages =
                UNION {parse_pages_input(t, total_pages).pages :
                          t \in {u \in Tokens(pages_input) : WellFormed(u)}}
    /\ (pc = "parsed" /\ pages_input \in {Text_to3, Text_4to, Text_1to2to3})
          => parsed.pages = {}

\* C2 witness: a parsed text with a malformed token beside a well-formed
\* one that contributed a page.
C2_Witness ==
    /\ pc = "parsed"
    /\ \E t \in Tokens(pages_input) : ~WellFormed(t) /\ Trimmed(t) # <<>>
    /\ \E t \in Tokens(pages_input) : WellFormed(t)
    /\ parsed.pages # {}

\* C3: for well-formed tokens and total_pages >= 1 the result is exactly
\* the union over the tokens of {N-1} (if in range) resp. the indices i
\* with max(1,S)-1 <= i < min(E,total_pages); "1,3,5-7" of 10 pages gives
\* {0,2,4,5,6} and "2-2" of 5 pages gives {1}.
C3_ExactPagesOfWellFormedTokens ==
    /\ (/\ pc = "parsed"
        /\ total_pages # None /\ total_pages >= 1
        /\ \A t \in Tokens(pages_input) : WellFormed(t))
          => parsed.pages =
                UNION {TokenPages(t, total_pages) : t \in Tokens(pages_input)}
    /\ (pc = "parsed" /\ pages_input = Text_1_3_5to7 /\ total_pages = 10)
          => parsed.pages = {0, 2, 4, 5, 6}
    /\ (pc = "parsed" /\ pages_input = Text_2to2 /\ total_pages = 5)
          => parsed.pages = {1}

\* C3 witness: several well-formed tokens, one of them a dashed pair whose
\* end lies beyond the last page, and a non-empty result.
C3_Witness ==
    /\ pc = "parsed"
    /\ total_pages # None /\ total_pages >= 1
    /\ \A t \in Tokens(pages_input) : WellFormed(t)
    /\ Cardinality(TokenSpans(pages_input)) >= 2
    /\ \E t \in Tokens(pages_input) :
          IsDashed(t) /\ NumberValue(RightOf(t)) > total_pages
    /\ parsed.pages # {}

(***************************************************************************)
(* Claims about the fit-centred plan, checked under SpecResize.            *)
(***************************************************************************)
\* the precise resize ran on a readable page of positive width and height
PlanComputed ==
    /\ pc # "page"
    /\ use_precise
    /\ src_page.readable
    /\ BoxWidth(src_page).m > 0 /\ BoxHeight(src_page).m > 0

TargetWidth == FlInt(target_size[1])
TargetHeight == FlInt(target_size[2])

\* the distance from a float a > 0 to the next float above it
Ulp(a) == [m |-> 1, e |-> FlTop(a) - FloatBits + 1]

ScaleIsMinimum ==
    LET scale_x == FlDiv(TargetWidth, BoxWidth(src_page))
        scale_y == FlDiv(TargetHeight, BoxHeight(src_page))
    IN  /\ resized.plan.scale \in {scale_x, scale_y}
        /\ FlLeq(resized.plan.scale, scale_x)
        /\ FlLeq(resized.plan.scale, scale_y)

\* C6 as stated: for every source size (w,h) with w>0, h>0 and every target
\* (W,H) the plan has scale = min(W/w, H/h), scaled width <= W, scaled
\* height <= H and both offsets >= 0.
C6_FitsInsideTarget ==
    PlanComputed =>
       /\ ScaleIsMinimum
       /\ FlLeq(resized.plan.new_width, TargetWidth)
       /\ FlLeq(resized.plan.new_height, TargetHeight)
       /\ resized.plan.x_offset.m >= 0
       /\ resized.plan.y_offset.m >= 0

\* C6 as amended: the plan has scale = min(W/w, H/h) as computed in floating
\* point; the scaled width and height exceed W and H by at most one unit in
\* the last place of W resp. H, and the offsets are at least minus half
\* that unit.
C6_FitsInsideTargetUpToRounding ==
    PlanComputed =>
       /\ ScaleIsMinimum
       /\ FlLeq(resized.plan.new_width, FlAdd(TargetWidth, Ulp(TargetWidth)))
       /\ FlLeq(resized.plan.new_height, FlAdd(TargetHeight, Ulp(TargetHeight)))
       /\ FlLeq(FlNeg(FlDiv(Ulp(TargetWidth), FlInt(2))), resized.plan.x_offset)
       /\ FlLeq(FlNeg(FlDiv(Ulp(TargetHeight), FlInt(2))), resized.plan.y_offset)

\* C6 witness: a precise resize whose scaled width or height came out above
\* the target by rounding, so that an offset is negative.
C6_Witness ==
    /\ PlanComputed
    /\ resized.how = "precise"
    /\ \/ FlLess(TargetWidth, resized.plan.new_width)
       \/ FlLess(TargetHeight, resized.plan.new_height)
    /\ resized.plan.x_offset.m < 0 \/ resized.plan.y_offset.m < 0

\* C7: when the source page size equals the target size the precise resize
\* computes scale 1 and offsets 0 and applies no translation, and applied
\* to its own output it computes scale 1 and offsets 0 again.
C7_FitCentredIdempotent ==
    (/\ PlanComputed
     /\ BoxWidth(src_page) = TargetWidth
     /\ BoxHeight(src_page) = TargetHeight)
       => /\ resized.plan.scale = FlOne
          /\ resized.plan.x_offset = FlZero /\ resized.plan.y_offset = FlZero
          /\ resized.how = "precise" =>
                resized.page.content.dx = FlZero /\ resized.page.content.dy = FlZero
          /\ (pc = "again" /\ resized.how = "precise")
                => /\ again.how = "precise"
                   /\ again.plan.scale = FlOne
                   /\ again.plan.x_offset = FlZero
                   /\ again.plan.y_offset = FlZero

(***************************************************************************)
(* Claims about the merge, checked under SpecMerge.                        *)
(***************************************************************************)
\* the exclusion set X of file f, and the indices in [0,n) outside it
ExclusionSet(f) == parse_pages_input(pages_inputs[f], None).pages
PageCount(f) == Len(uploaded_files[f].pages)
KeptOf(f) == {k \in 0..(PageCount(f) - 1) : k \notin ExclusionSet(f)}

Origins(buffer) == {<<buffer[k].file, buffer[k].index>> : k \in 1..Len(buffer)}

\* page a comes before page b in input order
Precedes(a, b) == a.file < b.file \/ (a.file = b.file /\ a.index < b.index)

InOrder(buffer) ==
    \A j, k \in 1..Len(buffer) : j < k => Precedes(buffer[j], buffer[k])

\* the batch of the example: 3 and 2 pages, "1" for the first, "" for the second
ExampleBatch ==
    /\ Len(uploaded_files) = 2
    /\ PageCount(1) = 3 /\ PageCount(2) = 2
    /\ pages_inputs = << <<"1">>, <<>> >>

\* C4: every per-document output holds exactly the pages with index in
\* [0,n) and not in X, in ascending order; the merged document is the
\* concatenation of the outputs in input order, so the final page count is
\* the sum of n - |X /\ [0,n)|; documents of 3 and 2 pages with "1" and ""
\* give 4 pages and final_pages = 4.
C4_MergedIsConcatenationOfKeptPages ==
    /\ pc \in {"loop", "merged"} =>
          \A f \in 1..Len(processed_pdfs) :
             /\ Origins(processed_pdfs[f]) = {<<f, k>> : k \in KeptOf(f)}
             /\ InOrder(processed_pdfs[f])
    /\ pc = "merged" =>
          /\ Origins(final_pdf) =
                UNION {{<<f, k>> : k \in KeptOf(f)} : f \in 1..Len(uploaded_files)}
          /\ InOrder(final_pdf)
          /\ Len(final_pdf) =
                SumOver(1..Len(uploaded_files),
                        [f \in 1..Len(uploaded_files) |->
                           PageCount(f)
                             - Cardinality(ExclusionSet(f)
                                             \cap 0..(PageCount(f) - 1))])
          /\ total_stats.final_pages = Len(final_pdf)
    /\ (pc = "merged" /\ ExampleBatch) =>
          Len(final_pdf) = 4 /\ total_stats.final_pages = 4

\* C4 witness: the batch of the example has been merged into 4 pages, two
\* of the first document and two of the second.
C4_Witness ==
    /\ pc = "merged"
    /\ ExampleBatch
    /\ Origins(final_pdf) = {<<1, 1>>, <<1, 2>>, <<2, 0>>, <<2, 1>>}
    /\ total_stats.final_pages = 4

\* C5: a document that cannot be opened or processed aborts only its own
\* contribution; the operation ends in a hard error only when no document
\* of the batch produced any output.
C5_FailureAbortsOnlyThatDocument ==
    pc = "error" =>
       /\ processed_pdfs = <<>>
       /\ \A f \in 1..Len(uploaded_files) :
             process_single_pdf(uploaded_files[f], ExclusionSet(f),
                                target_size, use_precise).exc # "none"

\* the page of the reader an entry of an output was made from
SourceOf(entry) == uploaded_files[entry.file].pages[entry.index + 1]

\* the width or the height of the page is zero or cannot be read
NoFit(page) ==
    \/ ~page.readable
    \/ BoxWidth(page).m = 0
    \/ BoxHeight(page).m = 0

\* C8 as stated: a page whose width or height is zero or unreadable gets an
\* identity plan; it is emitted at its original size with a warning, and
\* the rest of the document is still processed.
C8_NoFitLeavesPageAtOriginalSize ==
    (pc \in {"loop", "merged"} /\ use_precise) =>
       \A f \in 1..Len(processed_pdfs) :
          /\ Origins(processed_pdfs[f]) = {<<f, k>> : k \in KeptOf(f)}
          /\ \A k \in 1..Len(processed_pdfs[f]) :
                \A entry \in {processed_pdfs[f][k]} :
                   NoFit(SourceOf(entry)) =>
                      /\ entry.warned
                      /\ entry.page.content = Identity
                      /\ entry.page.box = SourceOf(entry).box

\* C8 as amended: for such a page no plan is computed; a warning is given
\* and the simple resize is used, which leaves the content unscaled and
\* unmoved but sets the upper right corner of the mediabox to the target
\* size; the page of the reader is emitted unchanged only if the simple
\* resize fails too; the rest of the document is still processed.
C8_NoFitFallsBackToSimpleResize ==
    (pc \in {"loop", "merged"} /\ use_precise) =>
       \A f \in 1..Len(processed_pdfs) :
          /\ Origins(processed_pdfs[f]) = {<<f, k>> : k \in KeptOf(f)}
          /\ \A k \in 1..Len(processed_pdfs[f]) :
                \A entry \in {processed_pdfs[f][k]} :
                   NoFit(SourceOf(entry)) =>
                      /\ entry.warned
                      /\ entry.page.content = Identity
                      /\ IF SourceOf(entry).fails = "simple"
                         THEN entry.how = "original"
                              /\ entry.page = SourceOf(entry)
                         ELSE entry.how = "simple"
                              /\ entry.page.box =
                                    <<SourceOf(entry).box[1],
                                      SourceOf(entry).box[2],
                                      FlInt(target_size[1]),
                                      FlInt(target_size[2])>>

\* C8 witness: a merged document whose first page had height zero and was
\* given the target size by the simple resize with a warning, followed by a
\* page that was resized precisely.
C8_Witness ==
    /\ pc = "merged"
    /\ use_precise
    /\ Len(final_pdf) = 2
    /\ SourceOf(final_pdf[1]) = ZeroHeightPage
    /\ final_pdf[1].warned /\ final_pdf[1].how = "simple"
    /\ BoxHeight(final_pdf[1].page) = FlInt(target_size[2])
    /\ final_pdf[2].how = "precise" /\ ~final_pdf[2].warned

(***************************************************************************)
(* Claims about detect_optimal_size, checked under SpecDetect.             *)
(***************************************************************************)
\* no file, or every file unreadable or without pages
EmptyCatalog ==
    \A f \in 1..Len(uploaded_files) :
       ~uploaded_files[f].readable \/ uploaded_files[f].pages = <<>>

\* C9: on an empty catalog (no files, or every file unreadable, or only
\* files with zero pages) the selection returns the default size A4 and
\* does not raise.
C9_EmptyCatalogGivesA4 ==
    (pc \in {"returned", "raised"} /\ EmptyCatalog) =>
       /\ pc = "returned"
       /\ detected.exc = "none"
       /\ detected.size = A4

\* C9 witness: the selection has ended on an unreadable file and a file
\* without pages.
C9_Witness ==
    /\ pc = "returned"
    /\ Len(uploaded_files) = 2
    /\ ~uploaded_files[1].readable
    /\ uploaded_files[2].readable /\ uploaded_files[2].pages = <<>>
    /\ detected.size = A4

\* C10: for every collection of files, files that fail part-way and pages
\* of height zero included, detect_optimal_size does not raise and returns
\* one size that is an entry of PAPER_SIZES.
C10_AlwaysReturnsTableSize ==
    /\ pc # "raised"
    /\ pc = "returned" =>
          detected.exc = "none" /\ detected.size \in PaperSizeValues

\* the cost the specification gives page k of all_sizes against a
\* candidate: |pageRatio - candidateRatio| + k * max(0, pageWidth -
\* candidateWidth, pageHeight - candidateHeight) with k = 0.001
PageCost(candidate, k) ==
    FlAdd(FlAbs(FlSub(FlDiv(all_sizes[k][1], all_sizes[k][2]),
                      FlDiv(FlInt(candidate[1]), FlInt(candidate[2])))),
          FlMul(Thousandth,
                FlMax(FlZero,
                      FlMax(FlSub(all_sizes[k][1], FlInt(candidate[1])),
                            FlSub(all_sizes[k][2], FlInt(candidate[2]))))))

\* the total cost of a candidate over the first n pages, summed in order
RECURSIVE TotalCost(_, _)
TotalCost(candidate, n) ==
    IF n = 0 THEN FlZero
    ELSE FlAdd(TotalCost(candidate, n - 1), PageCost(candidate, n))

CostOfEntry(i) == TotalCost(PAPER_SIZES[i].size, Len(all_sizes))

\* entry i of the table has minimal cost and no earlier entry has
MinimalAndEarliest(i) ==
    /\ \A j \in 1..Len(PAPER_SIZES) : FlLeq(CostOfEntry(i), CostOfEntry(j))
    /\ \A j \in 1..(i - 1) : FlLess(CostOfEntry(i), CostOfEntry(j))

\* C11: for a non-empty catalog find_best_fit_size returns the candidate of
\* the table whose total cost over all pages is minimal, the earliest in
\* table order among those of the same minimal cost.
C11_BestFitHasMinimalCost ==
    (pc = "returned" /\ all_sizes # <<>>) =>
       \E i \in 1..Len(PAPER_SIZES) :
          /\ detected.size = PAPER_SIZES[i].size
          /\ MinimalAndEarliest(i)

\* C11 witness: several pages, one of them larger than the size returned,
\* and a size returned that is not the first of the table.
C11_Witness ==
    /\ pc = "returned"
    /\ Len(all_sizes) >= 2
    /\ detected.size # PAPER_SIZES[1].size
    /\ \E k \in 1..Len(all_sizes) :
          FlLess(FlInt(detected.size[2]), all_sizes[k][2])
    /\ \E i \in 1..Len(PAPER_SIZES) :
          detected.size = PAPER_SIZES[i].size /\ MinimalAndEarliest(i)

(***************************************************************************)
(* Claims about the split, checked under SpecSplit.                        *)
(***************************************************************************)
SplitReturned == pc \in {"split_returned", "split_done", "split_warned"}

SplitTotal == Len(split_file.pages)

\* the elements of a set of page indices in ascending order
RECURSIVE Ascending(_)
Ascending(S) ==
    IF S = {} THEN <<>>
    ELSE LET least == CHOOSE a \in S : \A b \in S : a <= b
         IN  <<least>> \o Ascending(S \ {least})

\* the output that holds the pages of S, unmodified and in page order
OutputOf(S) ==
    [k \in 1..Cardinality(S) |->
        [index |-> Ascending(S)[k], page |-> split_file.pages[Ascending(S)[k] + 1]]]

\* C12: per-page mode on an N-page document yields exactly N outputs, the
\* i-th holding exactly source page i, unmodified, so that the outputs in
\* order are the pages in their original order; none for N = 0.
C12_SplitAllOnePagePerOutput ==
    (SplitReturned /\ split_option = "todas") =>
       /\ Len(pdf_files.files) = SplitTotal
       /\ \A i \in 1..SplitTotal :
             pdf_files.files[i] =
                <<[index |-> i - 1, page |-> split_file.pages[i]]>>
       /\ SplitTotal = 0 => pdf_files.files = <<>>

\* C12 witness: split_pdf returned the outputs of a document of several
\* pages in per-page mode.
C12_Witness ==
    /\ pc = "split_returned"
    /\ split_option = "todas"
    /\ SplitTotal >= 3
    /\ Len(pdf_files.files) = SplitTotal
    /\ pdf_files.files[3][1].index = 2

\* an entry under the page-selector grammar: every token between commas is
\* a number or a dashed pair; and the pages it names
Grammatical(entry) == \A t \in Tokens(entry) : WellFormed(t)
GrammarPages(entry) == UNION {TokenPages(t, SplitTotal) : t \in Tokens(entry)}

\* C13 as stated: in per-range mode every entry gives one output holding
\* exactly the pages the entry names under the grammar (a number, a dashed
\* pair or a comma-separated list of these), in page order and unmodified,
\* the outputs in the order of the entries.
C13_OneOutputPerGrammarEntry ==
    (/\ SplitReturned /\ split_option = "rango_personalizado"
     /\ \A i \in 1..Len(custom_ranges) : Grammatical(custom_ranges[i]))
       => /\ Len(pdf_files.files) = Len(custom_ranges)
          /\ \A i \in 1..Len(custom_ranges) :
                pdf_files.files[i] = OutputOf(GrammarPages(custom_ranges[i]))

\* the outputs the entries from entry i on give when only a number or a
\* dashed pair gives one
RECURSIVE OutputsFrom(_)
OutputsFrom(i) ==
    IF i > Len(custom_ranges) THEN <<>>
    ELSE (IF WellFormed(custom_ranges[i])
          THEN <<OutputOf(TokenPages(custom_ranges[i], SplitTotal))>>
          ELSE <<>>)
            \o OutputsFrom(i + 1)

\* C13 as amended: every entry that is a number N or a dashed pair S-E
\* gives one output holding exactly the pages of the document it names, in
\* page order and unmodified, possibly none; every other entry, a
\* comma-separated list included, gives no output; the outputs are in the
\* order of their entries.
C13_OneOutputPerNumberOrPair ==
    (SplitReturned /\ split_option = "rango_personalizado") =>
       pdf_files.files = OutputsFrom(1)

\* C13 witness: for a comma-separated list followed by a dashed pair
\* split_pdf returned one output, the three pages of the pair.
C13_Witness ==
    /\ pc = "split_returned"
    /\ split_option = "rango_personalizado"
    /\ SplitTotal >= 3
    /\ custom_ranges = <<<<"1", ",", "3">>, <<"1", "-", "3">>>>
    /\ Len(pdf_files.files) = 1
    /\ Len(pdf_files.files[1]) = 3
    /\ pdf_files.files[1][3].index = 2

\* an entry is invalid when it cannot be parsed or names no page of the
\* document
InvalidEntry(entry) ==
    ~WellFormed(entry) \/ TokenPages(entry, SplitTotal) = {}

\* C14: in per-range mode every invalid entry is skipped, so there are at
\* most as many outputs as entries, fewer when an entry is invalid, and no
\* output has zero pages.
C14_InvalidEntriesGiveNoOutput ==
    (pc = "split_returned" /\ split_option = "rango_personalizado") =>
       /\ Len(pdf_files.files) <= Len(custom_ranges)
       /\ (\E i \in 1..Len(custom_ranges) : InvalidEntry(custom_ranges[i]))
             => Len(pdf_files.files) < Len(custom_ranges)
       /\ \A i \in 1..Len(pdf_files.files) : pdf_files.files[i] # <<>>

\* the name of the download of a range
NamedAfter(range) ==
    <<"r", "a", "n", "g", "o", "_">>
       \o [k \in 1..Len(range) |-> IF range[k] = "-" THEN "_" ELSE range[k]]
       \o <<".", "p", "d", "f">>

\* C19: for a range list that passed the validation of main split_pdf
\* returns one non-empty output per entry in entry order, and output i is
\* named after, and holds exactly the pages of, range i.
C19_ValidatedRangesOneOutputEach ==
    (pc = "split_done" /\ split_option = "rango_personalizado") =>
       /\ Len(pdf_files.files) = Len(custom_ranges)
       /\ Len(file_names) = Len(custom_ranges)
       /\ \A i \in 1..Len(custom_ranges) :
             /\ WellFormed(custom_ranges[i])
             /\ pdf_files.files[i] # <<>>
             /\ pdf_files.files[i] =
                   OutputOf(TokenPages(custom_ranges[i], SplitTotal))
             /\ IsDashed(custom_ranges[i]) =>
                   Len(pdf_files.files[i]) =
                      NumberValue(RightOf(custom_ranges[i]))
                         - NumberValue(LeftOf(custom_ranges[i])) + 1
             /\ file_names[i] = NamedAfter(custom_ranges[i])

\* C19 witness: two validated ranges, one of them a dashed pair of several
\* pages written with blanks, have been split and named.
C19_Witness ==
    /\ pc = "split_done"
    /\ split_option = "rango_personalizado"
    /\ ranges_input = <<" ", "2", " ", "-", " ", "4", "\n", "3">>
    /\ custom_ranges = <<<<"2", "-", "4">>, <<"3">>>>
    /\ Len(pdf_files.files) = 2
    /\ Len(pdf_files.files[1]) = 3
    /\ file_names[1] = <<"r", "a", "n", "g", "o", "_", "2", "_", "4",
                         ".", "p", "d", "f">>

(***************************************************************************)
(* Further claims about parse_pages_input (SpecParse) and about the merge  *)
(* (SpecMerge).                                                            *)
(***************************************************************************)
Blank(text) == \A k \in 1..Len(text) : text[k] = " "

\* C15: parse_pages_input returns the empty set for the empty string and
\* for a string of blanks only, whatever total_pages is or whether it is
\* given; in the merge path this removes no page of the document.
C15_BlankTextRemovesNothing ==
    (pc = "parsed" /\ Blank(pages_input)) =>
       /\ parsed.pages = {} /\ parsed.raised = "none"
       /\ parse_pages_input(pages_input, None).pages = {}
       /\ \A n \in 0..MaxDocPages :
             pages_to_keep(0, n, parse_pages_input(pages_input, None).pages)
                = RangeSeq(0, n)

\* C15 witness: a text of several blanks was parsed with a page count.
C15_Witness ==
    /\ pc = "parsed"
    /\ Len(pages_input) >= 2 /\ Blank(pages_input)
    /\ total_pages # None /\ total_pages >= 1
    /\ parsed.pages = {}

\* C16: after every iteration of the merge loop original_pages =
\* removed_pages + final_pages and processed_files is the number of the
\* documents processed so far.
C16_CountersAddUp ==
    pc \in {"loop", "merged"} =>
       /\ total_stats.original_pages
             = total_stats.removed_pages + total_stats.final_pages
       /\ total_stats.processed_files = file_idx
       /\ total_stats.processed_files = Len(processed_pdfs)

\* C17: a set returned by parse_pages_input holds only non-negative
\* integers, also without total_pages and for tokens such as "0" or a range
\* from 0, and is the union of what its tokens give one by one, so that
\* their order and repetition do not matter.
C17_OnlyNonNegativePages ==
    pc = "parsed" =>
       /\ \A p \in parsed.pages : p >= 0
       /\ parsed.pages =
             UNION {parse_pages_input(t, total_pages).pages :
                       t \in Tokens(pages_input)}

\* the precise resize of a page fails; the simple resize of a page fails
PreciseFails(page) == NoFit(page) \/ page.fails # "none"
SimpleFails(page) == page.fails = "simple"

\* what the simple resize and the last resort leave of a page
SimpleOrOriginal(entry) ==
    /\ entry.how = "simple" =>
          /\ entry.page.content = Identity
          /\ entry.page.box[3] = FlInt(target_size[1])
          /\ entry.page.box[4] = FlInt(target_size[2])
    /\ entry.how = "original" => entry.page = SourceOf(entry)

\* no failure of a resize aborts process_single_pdf, and one page is
\* appended for each kept page
OnePagePerKeptPage ==
    /\ pc = "error" => ~uploaded_files[file_idx + 1].readable
    /\ pc \in {"loop", "merged"} =>
          \A f \in 1..Len(processed_pdfs) :
             /\ Len(processed_pdfs[f]) = Cardinality(KeptOf(f))
             /\ Origins(processed_pdfs[f]) = {<<f, k>> : k \in KeptOf(f)}

EmittedEntries ==
    IF pc \in {"loop", "merged"}
    THEN UNION {{processed_pdfs[f][k] : k \in 1..Len(processed_pdfs[f])} :
                   f \in 1..Len(processed_pdfs)}
    ELSE {}

\* C18 as stated: the precise resize is attempted first, the simple resize
\* only if it fails, the original page only if that fails too; no such
\* failure aborts process_single_pdf and one page is appended per kept page.
C18_PreciseThenSimpleThenOriginal ==
    /\ OnePagePerKeptPage
    /\ \A entry \in EmittedEntries :
          /\ entry.how = (IF ~PreciseFails(SourceOf(entry)) THEN "precise"
                          ELSE IF ~SimpleFails(SourceOf(entry)) THEN "simple"
                          ELSE "original")
          /\ SimpleOrOriginal(entry)

\* C18 as amended: with the precise method selected the order is precise,
\* then simple, then the original page; with the simple method selected the
\* precise resize is not attempted and the order is simple, then the
\* original page.
C18_FallbackOrderOfSelectedMethod ==
    /\ OnePagePerKeptPage
    /\ \A entry \in EmittedEntries :
          /\ entry.how = (IF use_precise /\ ~PreciseFails(SourceOf(entry))
                          THEN "precise"
                          ELSE IF ~SimpleFails(SourceOf(entry)) THEN "simple"
                          ELSE "original")
          /\ entry.warned = (use_precise /\ PreciseFails(SourceOf(entry)))
          /\ SimpleOrOriginal(entry)

\* C18 witness: a merged document with the precise method selected, whose
\* first page fell back to the simple resize and whose second page, for
\* which the simple resize fails as well, is the original page.
C18_Witness ==
    /\ pc = "merged"
    /\ use_precise
    /\ Len(final_pdf) = 2
    /\ SourceOf(final_pdf[1]) = PreciseFailsPage
    /\ final_pdf[1].how = "simple"
    /\ SourceOf(final_pdf[2]) = SimpleFailsPage
    /\ final_pdf[2].how = "original"

\* C20: for total_pages >= 1 and every text the number of remaining pages
\* of the preview equals the number of pages process_single_pdf keeps for
\* the text parsed without a bound: both parses exclude the same pages.
C20_PreviewMatchesProcessing ==
    (pc = "parsed" /\ total_pages # None /\ total_pages >= 1) =>
       /\ preview_remaining(pages_input, total_pages)
             = Len(pages_to_keep(0, total_pages,
                                 parse_pages_input(pages_input, None).pages))
       /\ parsed.pages
             = parse_pages_input(pages_input, None).pages
                  \cap 0..(total_pages - 1)

\* C20 witness: a text whose unbounded parse names pages outside the
\* document, parsed with a page count that leaves some page excluded.
C20_Witness ==
    /\ pc = "parsed"
    /\ total_pages # None /\ total_pages >= 1
    /\ parsed.pages # {}
    /\ parse_pages_input(pages_input, None).pages # parsed.pages
    /\ preview_remaining(pages_input, total_pages) < total_pages

=============================================================================
